---- MODULE Spec2Model ----
(***************************************************************************)
(* License-plate recognition service: the HTTP handler PlateAPI.recognize, *)
(* the pipeline PlateRecognizer.process, the detection adapter             *)
(* YOLODetector.detect_plate_yolo and the text adapter                     *)
(* OCRReader.extract_text.  The image codec, the detector model and the    *)
(* OCR model are external: their outcomes are inputs of the actions.       *)
(*                                                                         *)
(* Numbers: a Python float f is represented by the integer 100 * f, so the *)
(* OCR sentinel 100.0 is 10000 and a detector confidence 0.87 is 87.       *)
(* Strings are sequences of one-character strings.                         *)
(***************************************************************************)
EXTENDS Integers, Sequences, FiniteSets, TLC

\* ------------------------------------------------------------------ bounds
MaxTextLen == 2
MaxDim == 3
MaxBoxes == 2
MaxCalls == 2

\* --------------------------------------------------------- program constants
OcrConfidence == 10000
ZeroConfidence == 0
YOLO_EXPAND_RATIO == <<1, 1000>>
YOLO_OUTPUT_SIZE == <<512, 256>>

\* ------------------------------------------------------------ Python values
PyNone == [t |-> "None"]
PyFloat(x) == [t |-> "float", v |-> x]
PyStr(chars) == [t |-> "str", v |-> chars]
PyList(items) == [t |-> "list", v |-> items]
PyTuple(items) == [t |-> "tuple", v |-> items]
PyImage(h, w) == [t |-> "ndarray", h |-> h, w |-> w]

Returned(v) == [kind |-> "return", val |-> v]
Raised(e) == [kind |-> "raise", exc |-> e]
NoOutcome == [kind |-> "none"]

\* bool(v) as Python evaluates `if v` / `not v`
Truthy(v) ==
    CASE v.t = "None" -> FALSE
      [] v.t = "float" -> v.v # 0
      [] v.t \in {"str", "list", "tuple"} -> Len(v.v) > 0
      [] OTHER -> TRUE

\* `a, b = v`
Unpack2(v) ==
    IF v.t \in {"tuple", "list"} /\ Len(v.v) = 2
    THEN Returned(v)
    ELSE Raised("TypeError")

\* `v` used where the code writes `v[0]`
Subscript0Skipped(v) == Returned(v)

\* `v[0]`
Subscript0(v) ==
    IF v.t \in {"tuple", "list", "str"}
    THEN IF Len(v.v) > 0 THEN Returned(v.v[1]) ELSE Raised("IndexError")
    ELSE Raised("TypeError")

\* image.size of a numpy array (channels do not matter for size = 0)
ImageSize(img) == img.h * img.w

\* a check that forgets the size: `image is None`
InvalidImageNoneOnly(img) == img.t = "None"

\* `image is None or image.size == 0`
InvalidImage(img) == img.t = "None" \/ ImageSize(img) = 0

\* a handler written `except ValueError`
IsExceptionNarrow(e) == e = "ValueError"

\* except Exception: SystemExit derives from BaseException only
IsException(e) == e # "SystemExit"

\* ------------------------------------------------------------------ strings
Alphabet == {"_", " ", "O", "o", "i", "I", "0", "1", "A"}

RECURSIVE StrsOfLen(_)
StrsOfLen(n) ==
    IF n = 0 THEN {<<>>}
    ELSE {Append(s, c) : s \in StrsOfLen(n - 1), c \in Alphabet}

StrsUpTo(n) == UNION {StrsOfLen(k) : k \in 0..n}

NoTextDetected ==
    <<"N", "o", " ", "t", "e", "x", "t", " ",
      "d", "e", "t", "e", "c", "t", "e", "d", ".">>
Underscores8 == <<"_", "_", "_", "_", "_", "_", "_", "_">>

\* str.replace(old, new) for a one-character old and a new of length 0 or 1
RECURSIVE Replace(_, _, _)
Replace(s, old, new) ==
    IF s = <<>> THEN <<>>
    ELSE (IF Head(s) = old THEN new ELSE <<Head(s)>>) \o Replace(Tail(s), old, new)

\* "".join(str(p) for p in parts)
RECURSIVE JoinParts(_)
JoinParts(parts) ==
    IF parts = <<>> THEN <<>>
    ELSE Head(parts).v \o JoinParts(Tail(parts))

\* a chain whose last step rewrites "I" to "i" after "i" was already mapped
normalize_text_late_I(text) ==
    LET raw == IF text.t \in {"list", "tuple"} THEN JoinParts(text.v) ELSE text.v
        r1 == Replace(raw, "_", <<>>)
        r2 == Replace(r1, " ", <<>>)
        r3 == Replace(r2, "O", <<"0">>)
        r4 == Replace(r3, "o", <<"0">>)
        r5 == Replace(r4, "i", <<"1">>)
    IN  Replace(r5, "I", <<"i">>)

\* PlateAPI._normalize_text
normalize_text(text) ==
    LET raw == IF text.t \in {"list", "tuple"} THEN JoinParts(text.v) ELSE text.v
        r1 == Replace(raw, "_", <<>>)
        r2 == Replace(r1, " ", <<>>)
        r3 == Replace(r2, "O", <<"0">>)
        r4 == Replace(r3, "o", <<"0">>)
        r5 == Replace(r4, "i", <<"1">>)
    IN  Replace(r5, "I", <<"1">>)

\* ---------------------------------------------------------------- detector
\* int(n / d) for d > 0: Python truncates toward zero
IntTrunc(n, d) == IF n >= 0 THEN n \div d ELSE -((-n) \div d)

Max(a, b) == IF a >= b THEN a ELSE b
Min(a, b) == IF a <= b THEN a ELSE b

\* expanded and clamped box of detect_plate_yolo, ratio = <<num, den>>
ExpandBox(xyxy, h, w, ratio) ==
    LET x1 == xyxy[1]
        y1 == xyxy[2]
        x2 == xyxy[3]
        y2 == xyxy[4]
        num == ratio[1]
        den == ratio[2]
        dxn == (x2 - x1) * num
        dyn == (y2 - y1) * num
    IN  << Max(0, IntTrunc(x1 * den - dxn, den)),
           Max(0, IntTrunc(y1 * den - dyn, den)),
           Min(w, IntTrunc(x2 * den + dxn, den)),
           Min(h, IntTrunc(y2 * den + dyn, den)) >>

\* length of a[lo:hi] for a of length n (negative indices count from the end)
SliceLen(lo, hi, n) ==
    LET nlo == IF lo < 0 THEN Max(lo + n, 0) ELSE Min(lo, n)
        nhi == IF hi < 0 THEN Max(hi + n, 0) ELSE Min(hi, n)
    IN  Max(nhi - nlo, 0)

\* YOLODetector.crop_plate: image[y1:y2, x1:x2]
crop_plate(img, box) ==
    PyImage(SliceLen(box[2], box[4], img.h), SliceLen(box[1], box[3], img.w))

\* a resize that reads output_size as (height, width)
ResizeSwapped(img, output_size) ==
    IF ImageSize(img) = 0 THEN Raised("cv2.error")
    ELSE Returned(PyImage(output_size[1], output_size[2]))

\* cv2.resize: an empty source raises cv2.error, else the result has output_size
Resize(img, output_size) ==
    IF ImageSize(img) = 0 THEN Raised("cv2.error")
    ELSE Returned(PyImage(output_size[2], output_size[1]))

\* Box.__init__ keeps the confidence as the one-element list [conf]
Box(xyxy, conf) == [xyxy |-> xyxy, conf |-> PyList(<<PyFloat(conf)>>)]

\* YOLODetector.detect_plate_yolo.  exists: os.path.exists(model_path);
\* ctorRaises / inferRaises: the YOLO constructor / the inference call raises;
\* boxes: what detect_plate returns.
\* the body of its try block (yolo_detector.py 118-145)
detect_try(image, exists, ctorRaises, inferRaises, boxes, ratio, output_size) ==
    IF ~exists THEN Returned(PyNone)
    ELSE IF ctorRaises \/ inferRaises THEN Raised("Exception")
    ELSE IF boxes = <<>> THEN Returned(PyNone)
    ELSE LET new == ExpandBox(boxes[1].xyxy, image.h, image.w, ratio)
             cropped == crop_plate(image, new)
             resized == Resize(cropped, output_size)
         IN  IF resized.kind = "raise" THEN resized
             ELSE Returned(PyTuple(<<resized.val, boxes[1].conf>>))

\* the try block without its except clause
detect_unguarded(image, exists, ctorRaises, inferRaises, boxes, ratio, output_size) ==
    detect_try(image, exists, ctorRaises, inferRaises, boxes, ratio, output_size)

\* try block and `except Exception: return None` (yolo_detector.py 117-149)
detect_outcome(image, exists, ctorRaises, inferRaises, boxes, ratio, output_size) ==
    LET o == detect_try(image, exists, ctorRaises, inferRaises, boxes, ratio, output_size)
    IN  IF o.kind = "raise" /\ IsException(o.exc) THEN Returned(PyNone) ELSE o

detect_plate_yolo(image, exists, ctorRaises, inferRaises, boxes, ratio, output_size) ==
    detect_outcome(image, exists, ctorRaises, inferRaises, boxes, ratio, output_size).val

\* does a call of detect_plate_yolo construct a YOLO model
ConstructsDetector(exists, ctorRaises) == exists /\ ~ctorRaises

\* --------------------------------------------------------------------- OCR
\* an extract_text that ends with `return (text, confidence)`
extract_text_always_pair(img, run) ==
    IF InvalidImage(img) THEN PyNone
    ELSE IF run.kind = "raise" THEN PyNone
    ELSE LET text == run.val
             confidence == IF Truthy(text) THEN OcrConfidence ELSE ZeroConfidence
         IN  PyTuple(<<text, PyFloat(confidence)>>)

\* OCRReader.extract_text.  run: outcome of self.ocr.run(img)
extract_text(img, run) ==
    IF InvalidImage(img) THEN PyNone
    ELSE IF run.kind = "raise" THEN PyNone
    ELSE LET text == run.val
             confidence == IF Truthy(text) THEN OcrConfidence ELSE ZeroConfidence
         IN  IF Truthy(text) THEN PyTuple(<<text, PyFloat(confidence)>>) ELSE PyNone

\* does extract_text invoke the OCR model
RunsOcr(img) == ~InvalidImage(img)

\* ------------------------------------------------------------------- state
VARIABLES
    pc,          \* "idle", "process", "show", "ocr", "after", "done", or the
                 \* position of a single call of a helper: "call", "returned"
    caller,      \* "none", "http" (PlateAPI.recognize) or "direct" (library call)
    request,     \* the request recognize handles: has a file, outcome of decoding
    image,       \* the image handed to process
    debug,       \* the DEBUG argument of process
    det,         \* what detect_plate_yolo returned in this call
    ocrRun,      \* outcome of the OCR model in this call
    ocrResult,   \* what extract_text returned in this call
    detCalls,    \* calls of detect_plate_yolo in this call
    ocrCalls,    \* calls of extract_text in this call
    runCalls,    \* calls of the OCR model in this call
    shown,       \* show_image was called in this call
    outcome,     \* how process ended: return value or exception
    response,    \* the HTTP response of recognize
    propagated,  \* exception that left recognize, "" if none
    nCalls,      \* calls started so far
    yoloLoads,   \* YOLO models constructed since startup
    ocrLoads,    \* OCR models constructed since startup
    arg,         \* arguments of a single call of a helper
    ret          \* what that call gave

vars == <<pc, caller, request, image, debug, det, ocrRun, ocrResult, detCalls, ocrCalls, runCalls,
          shown, outcome, response, propagated, nCalls, yoloLoads, ocrLoads, arg, ret>>

\* the state of the service, without the position and the helper call
serviceVars == <<caller, request, image, debug, det, ocrRun, ocrResult, detCalls, ocrCalls,
                 runCalls, shown, outcome, response, propagated, nCalls, yoloLoads, ocrLoads>>

NoCall == [fn |-> "none"]

NoResponse == [status |-> 0, body |-> [success |-> FALSE]]
NoRequest == [hasFile |-> FALSE, decoded |-> NoOutcome]

\* ------------------------------------------------------------------ inputs
DetConfs == {35, 90}
Coords == (0 - 1)..(MaxDim + 1)
ValidImages == {PyImage(1, MaxDim), PyImage(MaxDim, MaxDim)}
EmptyImages == {PyImage(0, 0), PyImage(0, MaxDim)}
DecodeOutcomes == {Raised("cv2.error"), Returned(PyNone)} \cup {Returned(i) : i \in ValidImages}
FirstBoxes == {Box(<<x1, y1, x2, y2>>, c) : x1 \in Coords, y1 \in Coords,
                                             x2 \in Coords, y2 \in Coords, c \in DetConfs}
\* boxes after the first one cover the whole image
BoxLists(img) ==
    {<<>>} \cup
    {<<b>> \o [i \in 1..n |-> Box(<<0, 0, img.w, img.h>>, c)] :
        b \in FirstBoxes, n \in 0..(MaxBoxes - 1), c \in DetConfs}
OcrTexts ==
    {PyStr(s) : s \in StrsUpTo(MaxTextLen) \cup {NoTextDetected, Underscores8}}
    \cup {PyList(<<>>), PyList(<<PyStr(Underscores8)>>), PyList(<<PyStr(NoTextDetected)>>)}
    \cup {PyList(<<PyStr(s)>>) : s \in StrsUpTo(1)}
    \cup {PyList(<<PyStr(<<"A">>), PyStr(<<"O">>)>>)}
OcrRuns == {Raised("RuntimeError")} \cup {Returned(x) : x \in OcrTexts}

\* -------------------------------------------------------------------- Init
\* PlateAPI.__init__ / PlateRecognizer.__init__: the OCR reader is built once,
\* only the path of the YOLO weights is stored
Startup ==
    /\ caller = "none"
    /\ request = NoRequest
    /\ image = PyNone
    /\ debug = FALSE
    /\ det = PyNone
    /\ ocrRun = NoOutcome
    /\ ocrResult = PyNone
    /\ detCalls = 0
    /\ ocrCalls = 0
    /\ runCalls = 0
    /\ shown = FALSE
    /\ outcome = NoOutcome
    /\ response = NoResponse
    /\ propagated = ""
    /\ nCalls = 0
    /\ yoloLoads = 0
    /\ ocrLoads = 1

Init ==
    /\ pc = "idle"
    /\ Startup
    /\ arg = NoCall
    /\ ret = NoCall

\* ----------------------------------------------------------- HTTP handler
Json400Success(msg) == [status |-> 400, body |-> [success |-> TRUE, error |-> msg]]
Json400(msg) == [status |-> 400, body |-> [success |-> FALSE, error |-> msg]]
Json500 == [status |-> 500, body |-> [success |-> FALSE, error |-> "internal_error"]]
JsonNotFound == [status |-> 200, body |-> [success |-> TRUE, plateFound |-> FALSE]]
JsonFound(clean, confidence) ==
    [status |-> 200,
     body |-> [success |-> TRUE, plateFound |-> TRUE,
               licenseNumber |-> clean, confidence |-> confidence]]

\* the try/except of recognize: what the handler answers when e is raised in it
OnRaise(e) ==
    IF IsException(e)
    THEN [response |-> Json500, propagated |-> ""]
    ELSE [response |-> NoResponse, propagated |-> e]

Answer(r) == [response |-> r, propagated |-> ""]

\* the sentinel tests of recognize on a truthy text
IsSentinel(text) ==
    \/ text.t = "str" /\ text.v \in {NoTextDetected, Underscores8}
    \/ text.t \in {"list", "tuple"} /\ JoinParts(text.v) = Underscores8

\* recognize after process has ended with outcome o
ShapeResult(o) ==
    IF o.kind = "raise" THEN OnRaise(o.exc)
    ELSE IF Unpack2(o.val).kind = "raise" THEN OnRaise(Unpack2(o.val).exc)
    ELSE LET text == o.val.v[1]
             conf == o.val.v[2]
             first == Subscript0(conf)
         IN  IF first.kind = "raise" THEN OnRaise(first.exc)
             ELSE IF ~Truthy(text) THEN Answer(JsonNotFound)
             ELSE IF IsSentinel(text) THEN Answer(JsonNotFound)
             ELSE IF normalize_text(text) = <<>> THEN Answer(JsonNotFound)
             ELSE IF first.val.t # "float" THEN OnRaise("TypeError")
             ELSE Answer(JsonFound(normalize_text(text), first.val.v))

StartCall(who, req, img, dbg) ==
    /\ caller' = who
    /\ request' = req
    /\ image' = img
    /\ debug' = dbg
    /\ det' = PyNone
    /\ ocrRun' = NoOutcome
    /\ ocrResult' = PyNone
    /\ detCalls' = 0
    /\ ocrCalls' = 0
    /\ runCalls' = 0
    /\ shown' = FALSE
    /\ outcome' = NoOutcome
    /\ nCalls' = nCalls + 1
    /\ UNCHANGED <<yoloLoads, ocrLoads, arg, ret>>

\* PlateAPI.recognize up to the call of process.  hasFile: request.files has a
\* truthy "image" entry; decoded: outcome of np.frombuffer + cv2.imdecode
recognize(hasFile, decoded) ==
    /\ pc \in {"idle", "done"}
    /\ nCalls < MaxCalls
    /\ IF hasFile /\ decoded.kind = "return" /\ decoded.val.t # "None"
       THEN /\ StartCall("http", [hasFile |-> hasFile, decoded |-> decoded], decoded.val, FALSE)
            /\ pc' = "process"
            /\ response' = NoResponse
            /\ propagated' = ""
       ELSE /\ StartCall("http", [hasFile |-> hasFile, decoded |-> decoded], PyNone, FALSE)
            /\ pc' = "done"
            /\ LET r == IF ~hasFile THEN Answer(Json400("No image uploaded"))
                        ELSE IF decoded.kind = "raise" THEN OnRaise(decoded.exc)
                        ELSE Answer(Json400("Invalid image format"))
               IN  /\ response' = r.response
                   /\ propagated' = r.propagated

\* a library call recognizer.process(img, DEBUG=dbg)
call_process(img, dbg) ==
    /\ pc \in {"idle", "done"}
    /\ nCalls < MaxCalls
    /\ StartCall("direct", NoRequest, img, dbg)
    /\ pc' = "process"
    /\ response' = NoResponse
    /\ propagated' = ""

\* ---------------------------------------------------------------- pipeline
\* f"{v:.2f}": only a number accepts the format
Format2f(v) == IF v.t = "float" THEN Returned(v) ELSE Raised("TypeError")

\* process from the result r of detect_plate_yolo to the first return
\* (workflow.py 60-69): "continue" stands for going on to steps 2 and 3
AfterDetect(r) ==
    IF Unpack2(r).kind = "raise" THEN Raised(Unpack2(r).exc)
    ELSE IF r.v[1].t # "None" THEN [kind |-> "continue"]
    ELSE Returned(PyTuple(<<PyStr(NoTextDetected), PyFloat(ZeroConfidence)>>))

\* a process that answers a failed OCR like a failed detection
AfterOcrSentinel(result, confidence, dbg) ==
    IF Truthy(result)
    THEN IF dbg /\ Format2f(confidence).kind = "raise"
         THEN Raised(Format2f(confidence).exc)
         ELSE Returned(PyTuple(<<result.v[1], confidence>>))
    ELSE Returned(PyTuple(<<PyStr(NoTextDetected), PyFloat(ZeroConfidence)>>))

\* process after extract_text returned result (workflow.py 77-85)
AfterOcr(result, confidence, dbg) ==
    IF Truthy(result)
    THEN IF dbg /\ Format2f(confidence).kind = "raise"
         THEN Raised(Format2f(confidence).exc)
         ELSE Returned(PyTuple(<<result.v[1], confidence>>))
    ELSE Returned(PyNone)

\* PlateRecognizer.process, entry check and step 1
process_detect(exists, ctorRaises, inferRaises, boxes) ==
    /\ pc = "process"
    /\ IF InvalidImage(image)
       THEN /\ outcome' = Raised("SystemExit")
            /\ pc' = "after"
            /\ UNCHANGED <<det, detCalls, yoloLoads>>
       ELSE LET r == detect_plate_yolo(image, exists, ctorRaises, inferRaises, boxes,
                                       YOLO_EXPAND_RATIO, YOLO_OUTPUT_SIZE)
                a == AfterDetect(r)
            IN  /\ det' = r
                /\ detCalls' = detCalls + 1
                /\ yoloLoads' = yoloLoads + (IF ConstructsDetector(exists, ctorRaises) THEN 1 ELSE 0)
                /\ IF a.kind = "continue"
                   THEN /\ pc' = IF debug THEN "show" ELSE "ocr"
                        /\ UNCHANGED outcome
                   ELSE /\ pc' = "after"
                        /\ outcome' = a
    /\ UNCHANGED <<caller, request, image, debug, ocrRun, ocrResult, ocrCalls, runCalls,
                   shown, response, propagated, nCalls, ocrLoads, arg, ret>>

\* step 2: utils.image_utils.show_image on the crop when DEBUG
show_image ==
    /\ pc = "show"
    /\ shown' = TRUE
    /\ pc' = "ocr"
    /\ UNCHANGED <<caller, request, image, debug, det, ocrRun, ocrResult, detCalls,
                   ocrCalls, runCalls, outcome, response, propagated, nCalls,
                   yoloLoads, ocrLoads, arg, ret>>

\* step 3: OCR on the crop, up to the return of process
process_ocr(run) ==
    /\ pc = "ocr"
    /\ LET crop == det.v[1]
           result == extract_text(crop, run)
       IN  /\ ocrRun' = (IF RunsOcr(crop) THEN run ELSE NoOutcome)
           /\ ocrResult' = result
           /\ ocrCalls' = ocrCalls + 1
           /\ runCalls' = runCalls + (IF RunsOcr(crop) THEN 1 ELSE 0)
           /\ outcome' = AfterOcr(result, det.v[2], debug)
    /\ pc' = "after"
    /\ UNCHANGED <<caller, request, image, debug, det, detCalls, shown,
                   response, propagated, nCalls, yoloLoads, ocrLoads, arg, ret>>

\* process hands its outcome to a library caller
process_return ==
    /\ pc = "after"
    /\ caller = "direct"
    /\ pc' = "done"
    /\ UNCHANGED <<caller, request, image, debug, det, ocrRun, ocrResult, detCalls,
                   ocrCalls, runCalls, shown, outcome, response, propagated, nCalls,
                   yoloLoads, ocrLoads, arg, ret>>

\* recognize from the end of process to its response (app.py 70-99)
recognize_respond ==
    /\ pc = "after"
    /\ caller = "http"
    /\ response' = ShapeResult(outcome).response
    /\ propagated' = ShapeResult(outcome).propagated
    /\ pc' = "done"
    /\ UNCHANGED <<caller, request, image, debug, det, ocrRun, ocrResult, detCalls,
                   ocrCalls, runCalls, shown, outcome, nCalls, yoloLoads, ocrLoads,
                   arg, ret>>

Next ==
    \/ \E hasFile \in BOOLEAN, decoded \in DecodeOutcomes : recognize(hasFile, decoded)
    \/ \E img \in {PyNone} \cup EmptyImages \cup ValidImages, dbg \in BOOLEAN :
          call_process(img, dbg)
    \/ \E exists \in BOOLEAN, ctorRaises \in BOOLEAN, inferRaises \in BOOLEAN :
          /\ ~(exists /\ ~ctorRaises /\ ~inferRaises)
          /\ process_detect(exists, ctorRaises, inferRaises, <<>>)
    \/ /\ pc = "process"
       /\ ~InvalidImage(image)
       /\ \E boxes \in BoxLists(image) : process_detect(TRUE, FALSE, FALSE, boxes)
    \/ show_image
    \/ \E run \in OcrRuns : process_ocr(run)
    \/ process_return
    \/ recognize_respond

Spec == Init /\ [][Next]_vars

\* ------------------------------------------- single calls of _normalize_text
NormalizeInputs ==
    {PyStr(s) : s \in StrsUpTo(MaxTextLen + 1)}
    \cup {PyStr(<<"O", "0", "I", "1", "_", " ", "i">>)}
    \cup {PyList(<<PyStr(a), PyStr(b)>>) : a \in StrsUpTo(1), b \in StrsUpTo(1)}

InitNormalize ==
    /\ pc = "call"
    /\ Startup
    /\ arg \in {[fn |-> "normalize_text", text |-> t] : t \in NormalizeInputs}
    /\ ret = NoCall

\* clean = PlateAPI._normalize_text(text)
call_normalize_text ==
    /\ pc = "call"
    /\ arg.fn = "normalize_text"
    /\ ret' = [fn |-> "normalize_text", clean |-> normalize_text(arg.text)]
    /\ pc' = "returned"
    /\ UNCHANGED <<serviceVars, arg>>

\* again = PlateAPI._normalize_text(clean)
call_normalize_text_again ==
    /\ pc = "returned"
    /\ ret.fn = "normalize_text"
    /\ ret' = [fn |-> "normalize_text_again", clean |-> ret.clean,
               again |-> normalize_text(PyStr(ret.clean))]
    /\ pc' = "renormalized"
    /\ UNCHANGED <<serviceVars, arg>>

NextNormalize == call_normalize_text \/ call_normalize_text_again

SpecNormalize == InitNormalize /\ [][NextNormalize]_vars

\* ------------------------------------------ single calls of detect_plate_yolo
\* (expand_ratio, output_size): the settings, the defaults, a test's values
\* and a negative margin
DetectParams ==
    { <<YOLO_EXPAND_RATIO, YOLO_OUTPUT_SIZE>>, << <<1, 10>>, <<256, 128>> >>,
      << <<1, 10>>, <<64, 32>> >>, << <<0 - 2, 1>>, <<256, 128>> >> }

DetectArgs ==
    {[fn |-> "detect_plate_yolo", image |-> img, exists |-> TRUE, ctorRaises |-> FALSE,
      inferRaises |-> FALSE, ratio |-> p[1], output_size |-> p[2],
      boxes |-> <<b>> \o [i \in 1..n |-> Box(<<0, 0, img.w, img.h>>, c)]] :
        img \in ValidImages, b \in FirstBoxes, n \in 0..(MaxBoxes - 1), c \in DetConfs,
        p \in DetectParams}
    \cup
    {[fn |-> "detect_plate_yolo", image |-> img, exists |-> e, ctorRaises |-> c,
      inferRaises |-> r, boxes |-> <<>>, ratio |-> YOLO_EXPAND_RATIO,
      output_size |-> YOLO_OUTPUT_SIZE] :
        img \in ValidImages, e \in BOOLEAN, c \in BOOLEAN, r \in BOOLEAN}

InitDetect ==
    /\ pc = "call"
    /\ Startup
    /\ arg \in DetectArgs
    /\ ret = NoCall

\* YOLODetector.detect_plate_yolo(image, model_path, expand_ratio, output_size);
\* expanded is (x1_new, y1_new, x2_new, y2_new) when the call computes it
call_detect_plate_yolo ==
    /\ pc = "call"
    /\ arg.fn = "detect_plate_yolo"
    /\ ret' = [fn |-> "detect_plate_yolo",
               outcome |-> detect_outcome(arg.image, arg.exists, arg.ctorRaises,
                                          arg.inferRaises, arg.boxes, arg.ratio,
                                          arg.output_size),
               constructed |-> ConstructsDetector(arg.exists, arg.ctorRaises),
               expanded |-> IF arg.exists /\ ~arg.ctorRaises /\ ~arg.inferRaises
                               /\ arg.boxes # <<>>
                            THEN ExpandBox(arg.boxes[1].xyxy, arg.image.h, arg.image.w,
                                           arg.ratio)
                            ELSE <<>>]
    /\ pc' = "returned"
    /\ UNCHANGED <<serviceVars, arg>>

NextDetect == call_detect_plate_yolo

SpecDetect == InitDetect /\ [][NextDetect]_vars

\* ----------------------------------------------- single calls of extract_text
OcrArgs ==
    {[fn |-> "extract_text", img |-> i, run |-> r] :
        i \in {PyNone, PyImage(YOLO_OUTPUT_SIZE[2], YOLO_OUTPUT_SIZE[1])}
              \cup EmptyImages \cup ValidImages,
        r \in OcrRuns}

InitOcr ==
    /\ pc = "call"
    /\ Startup
    /\ arg \in OcrArgs
    /\ ret = NoCall

\* OCRReader.extract_text(img); runs counts the calls of self.ocr.run
call_extract_text ==
    /\ pc = "call"
    /\ arg.fn = "extract_text"
    /\ ret' = [fn |-> "extract_text",
               result |-> extract_text(arg.img, arg.run),
               runs |-> IF RunsOcr(arg.img) THEN 1 ELSE 0]
    /\ pc' = "returned"
    /\ UNCHANGED <<serviceVars, arg>>

NextOcr == call_extract_text

SpecOcr == InitOcr /\ [][NextOcr]_vars

\* ---------------------------------------------------------------- core.Plate
PlateTexts == {PyStr(t) : t \in StrsUpTo(1)}
PlateConfs == {ZeroConfidence, 9900, OcrConfidence}
PlateCrops == {PyImage(YOLO_OUTPUT_SIZE[2], YOLO_OUTPUT_SIZE[1]), PyImage(1, MaxDim)}

\* Plate.__init__
Plate_init(crop, text, confidence) ==
    [crop |-> crop, text |-> text, confidence |-> confidence]

\* a set_text that forgets the confidence
Plate_set_text_only(plate, text, confidence) == [plate EXCEPT !.text = text]

\* Plate.set_text
Plate_set_text(plate, text, confidence) ==
    [plate EXCEPT !.text = text, !.confidence = confidence]

\* arg is the latest call on the plate (with the crop given at construction),
\* ret the plate
InitPlate ==
    /\ pc = "plate"
    /\ Startup
    /\ \E c \in PlateCrops, t \in PlateTexts, f \in PlateConfs :
          /\ arg = [fn |-> "Plate.__init__", crop |-> c, text |-> t, confidence |-> f]
          /\ ret = Plate_init(c, t, f)

set_text(t, f) ==
    /\ pc = "plate"
    /\ arg' = [fn |-> "Plate.set_text", crop |-> arg.crop, text |-> t, confidence |-> f]
    /\ ret' = Plate_set_text(ret, t, f)
    /\ UNCHANGED <<pc, serviceVars>>

NextPlate == \E t \in PlateTexts, f \in PlateConfs : set_text(t, f)

SpecPlate == InitPlate /\ [][NextPlate]_vars

TypeOK ==
    /\ pc \in {"idle", "process", "show", "ocr", "after", "done"}
    /\ caller \in {"none", "http", "direct"}
    /\ nCalls \in 0..MaxCalls

\* ---------------------------------------------------------------- properties
ProcessEnded == pc \in {"after", "done"} /\ outcome.kind # "none"
HttpDone == pc = "done" /\ caller = "http"

\* the detection step of this call yielded no result
NoDetection == detCalls = 1 /\ det.t = "None"
\* the detection step of this call yielded a crop and a confidence
HasCrop == detCalls = 1 /\ det.t = "tuple"
\* extract_text was called and yielded no result
OcrNoResult == ocrCalls >= 1 /\ ocrResult.t = "None"
\* extract_text was called and yielded (text, confidence)
OcrHasText == ocrCalls >= 1 /\ ocrResult.t = "tuple"
\* the confidence the detector reported for the first box
FirstBoxConf == det.v[2].v[1]

NoTextResult == PyTuple(<<PyStr(NoTextDetected), PyFloat(0)>>)

\* C1: on a valid image, whenever detect_plate_yolo yields no result, process
\* returns ("No text detected.", 0.0) and does not raise.
C1_NoDetectionGivesNoTextPair ==
    (ProcessEnded /\ NoDetection) => outcome = Returned(NoTextResult)

\* C2: a decodable image with no plate found (no box, or a box but no OCR
\* text) is always answered 200 with success = true and plateFound = false.
C2_NoPlateAnswered200 ==
    (HttpDone /\ (NoDetection \/ (HasCrop /\ OcrNoResult))) => response = JsonNotFound

C4_SuccessReturnsTextAndDetectorConf ==
    (ProcessEnded /\ HasCrop /\ OcrHasText)
    => outcome = Returned(PyTuple(<<ocrResult.v[1], FirstBoxConf>>))

\* C5: when detection yields a plate image and extract_text returns (text, c),
\* process returns exactly (text, c) and extract_text was called exactly once.
C5_ReturnsOcrPair ==
    (ProcessEnded /\ HasCrop /\ OcrHasText)
    => (outcome = Returned(ocrResult) /\ ocrCalls = 1)

\* C6: when detection yields None, process(image, DEBUG=True) on a valid image
\* returns None without raising.
C6_NoDetectionDebugReturnsNone ==
    (ProcessEnded /\ caller = "direct" /\ debug /\ NoDetection)
    => outcome = Returned(PyNone)

\* OCR text that is readable: something is left of it after normalization
Readable(text) == normalize_text(text) # <<>>

FoundAnswer ==
    /\ response.status = 200
    /\ response.body.success = TRUE
    /\ response.body.plateFound = TRUE
    /\ response.body.licenseNumber # <<>>
    /\ response.body.licenseNumber = normalize_text(ocrResult.v[1])
    /\ response.body.confidence = FirstBoxConf.v

\* C7 as stated: a box and readable OCR text are answered 200 with
\* plateFound = true, the normalized text and the detector's confidence.
C7_ReadableTextAnsweredFound ==
    (HttpDone /\ HasCrop /\ OcrHasText /\ Readable(ocrResult.v[1])) => FoundAnswer

\* C7: a box and readable OCR text other than the string "No text detected."
\* are answered 200 with success = true, plateFound = true, licenseNumber the
\* non-empty normalized OCR text and confidence the detector's confidence for
\* the first box.
C7_ReadableNonSentinelAnsweredFound ==
    (HttpDone /\ HasCrop /\ OcrHasText /\ Readable(ocrResult.v[1])
        /\ ocrResult.v[1] # PyStr(NoTextDetected))
    => FoundAnswer

C7_Witness ==
    /\ HttpDone /\ HasCrop
    /\ ocrRun = Returned(PyStr(<<"A", "O">>))
    /\ FirstBoxConf = PyFloat(90)
    /\ response = JsonFound(<<"A", "0">>, 90)

\* the request has no image file, or its bytes cannot be decoded
NoImageField == ~request.hasFile
Undecodable ==
    /\ request.hasFile
    /\ \/ request.decoded.kind = "raise"
       \/ request.decoded.kind = "return" /\ request.decoded.val.t = "None"

\* C8: a request without image field or with undecodable bytes is answered 400
\* with success = false and an error string, and process is not invoked.
C8_BadUploadAnswered400 ==
    (HttpDone /\ (NoImageField \/ Undecodable))
    => /\ response.status = 400
       /\ response.body.success = FALSE
       /\ "error" \in DOMAIN response.body
       /\ outcome.kind = "none" /\ detCalls = 0 /\ ocrCalls = 0

\* C9: every response of recognize has a boolean success field and a status
\* in {200, 400, 500}, and success is true exactly when the status is 200;
\* every handled request that ends has such a response or let none out.
C9_ResponseWellFormed ==
    /\ (HttpDone /\ propagated = "") => response.status # 0
    /\ response.status # 0 =>
          /\ response.status \in {200, 400, 500}
          /\ "success" \in DOMAIN response.body
          /\ response.body.success \in BOOLEAN
          /\ (response.body.success <=> response.status = 200)

C9_Witness ==
    /\ HttpDone /\ Undecodable /\ request.decoded.kind = "return"
    /\ response.status = 400 /\ response.body.success = FALSE

\* something was raised while recognize handled the request
RaisedInHandler ==
    \/ request.hasFile /\ request.decoded.kind = "raise"
    \/ outcome.kind = "raise"
    \/ outcome.kind = "return" /\ Unpack2(outcome.val).kind = "raise"

\* C10: whatever is raised while recognize handles a request is answered 500
\* with {success: false, error: "internal_error"}; nothing leaves the handler.
C10_RaisedAnswered500 ==
    HttpDone => /\ propagated = ""
                /\ RaisedInHandler => response = Json500

C10_Witness ==
    /\ HttpDone /\ HasCrop /\ OcrNoResult
    /\ outcome = Returned(PyNone)
    /\ response = Json500

\* characters the normalization removes, and what it maps the others to
Removed(c) == c \in {"_", " "}
Kept(c) == ~Removed(c)
Mapped(c) == IF c \in {"O", "o"} THEN "0" ELSE IF c \in {"i", "I"} THEN "1" ELSE c
RawText(text) == IF text.t = "str" THEN text.v ELSE JoinParts(text.v)

\* C11: normalize(normalize(s)) = normalize(s), and normalize(s) has none of
\* '_', ' ', 'O', 'o', 'i', 'I': it is s without underscores and spaces, with
\* O/o mapped to '0' and i/I to '1', the other characters kept in order.
C11_NormalizeIdempotent ==
    (pc \in {"returned", "renormalized"} /\ arg.fn = "normalize_text") =>
        /\ \A k \in 1..Len(ret.clean) : ret.clean[k] \notin {"_", " ", "O", "o", "i", "I"}
        /\ LET kept == SelectSeq(RawText(arg.text), Kept)
           IN  ret.clean = [k \in 1..Len(kept) |-> Mapped(kept[k])]
        /\ pc = "renormalized" => ret.again = ret.clean

C11_Witness ==
    /\ pc = "renormalized"
    /\ arg.text = PyStr(<<"O", "0", "I", "1", "_", " ", "i">>)
    /\ ret.clean = <<"0", "0", "1", "1", "1">>
    /\ ret.again = ret.clean

DetectReturned == pc = "returned" /\ arg.fn = "detect_plate_yolo"
\* the detector reported at least one box
BoxReported == DetectReturned /\ ret.expanded # <<>>

\* C12: for every image, first box and expand ratio, the four expanded
\* coordinates lie inside the image.
C12_ExpandedInsideImage ==
    BoxReported =>
        /\ 0 <= ret.expanded[1] /\ ret.expanded[1] <= arg.image.w
        /\ 0 <= ret.expanded[3] /\ ret.expanded[3] <= arg.image.w
        /\ 0 <= ret.expanded[2] /\ ret.expanded[2] <= arg.image.h
        /\ 0 <= ret.expanded[4] /\ ret.expanded[4] <= arg.image.h

\* the plate image of requested size with the confidence of the first box
CropOfFirstBox ==
    /\ ret.outcome.kind = "return"
    /\ ret.outcome.val.t = "tuple"
    /\ ret.outcome.val.v[1].t = "ndarray"
    /\ ret.outcome.val.v[1].w = arg.output_size[1]
    /\ ret.outcome.val.v[1].h = arg.output_size[2]
    /\ ret.outcome.val.v[2] = arg.boxes[1].conf

\* the expanded first box selects at least one pixel of the image
SelectsPixels ==
    /\ SliceLen(ret.expanded[1], ret.expanded[3], arg.image.w) > 0
    /\ SliceLen(ret.expanded[2], ret.expanded[4], arg.image.h) > 0

OcrReturned == pc = "returned" /\ arg.fn = "extract_text"
NoneOrEmptyImage == arg.img.t = "None" \/ arg.img.h = 0 \/ arg.img.w = 0
ModelGaveText == arg.run.kind = "return" /\ Len(arg.run.val.v) > 0

C16_InvalidImageAborts ==
    (ProcessEnded /\ (image.t = "None" \/ image.h = 0 \/ image.w = 0)) =>
        /\ outcome = Raised("SystemExit")
        /\ detCalls = 0 /\ ocrCalls = 0 /\ runCalls = 0
        /\ det = PyNone /\ ocrResult = PyNone

C16_Witness ==
    /\ pc = "done" /\ caller = "direct"
    /\ image = PyImage(0, MaxDim)
    /\ outcome = Raised("SystemExit")
    /\ detCalls = 0 /\ ocrCalls = 0

\* C17: after construction and after any set_text calls, text and confidence
\* of a Plate are both defined and are those of the same, latest call, and the
\* crop is still the one given at construction.
C17_TextAndConfidenceTogether ==
    pc = "plate" =>
        /\ {"crop", "text", "confidence"} \subseteq DOMAIN ret
        /\ ret.text = arg.text
        /\ ret.confidence = arg.confidence
        /\ ret.crop = arg.crop

C17_Witness ==
    /\ pc = "plate"
    /\ arg.fn = "Plate.set_text"
    /\ ret.text = PyStr(<<"A">>)
    /\ ret.confidence = 9900
    /\ ret.crop = PyImage(1, MaxDim)

\* C18: while one PlateAPI instance handles requests, no detector and no OCR
\* model is constructed: the counts stay what they were after startup.
C18_NoLoadWhileHandling ==
    (caller = "http" /\ nCalls = 1) => (yoloLoads = 0 /\ ocrLoads = 1)

====
